---- MODULE Spec2Model ----
(***************************************************************************)
(* Chat client of C-S-E-C/ai: the session / response state machine of its  *)
(* two variants.                                                           *)
(*   poll variant  (src/script.js):        pollForResponse with the        *)
(*                                         5-identical-reads stability rule*)
(*   push variant  (src/unnamed/part_000): EventSource streaming with a    *)
(*                                         30 s timeout, reset and storage *)
(* Text is modelled by TLA+ strings; "" is the empty (falsy) string and    *)
(* Null is JavaScript's null / undefined for the opaque key / id fields.   *)
(***************************************************************************)
EXTENDS Integers, Sequences, FiniteSets, TLC

VARIABLES
    \* ---- poll variant (src/script.js) ----
    pollSession,            \* currentSession {key, sessionId, model, history}
    isWaitingForResponse,   \* script.js:17
    pollAttempts,           \* script.js:18
    previousResponses,      \* local of pollForResponse
    stableContent,          \* local of pollForResponse ("" models null)
    pollPc,                 \* where the one async handleSendMessage call is suspended
    pollDom,                \* disabled flags of messageInput, sendButton, modelSelect
    pollStatus,             \* statusText.textContent
    pollObs,                \* observer: per-turn counts (turns, fetches, enables, errors)
    \* ---- push variant (src/unnamed/part_000) ----
    currentSession,         \* {key, sessionId, model, history, eventSource, isStreaming}
    turns,                  \* per handleSendMessage call: its position and the closure
                            \* of its startStreamingResponse (source, timer, promise,
                            \* fullResponse)
    dom,                    \* disabled flags of messageInput, sendButton, modelSelect
    statusText,             \* statusText.textContent
    localStorage,           \* the entries chatSession and selectedModel
    endRequests,            \* bodies of the end-session requests issued so far
    page,                   \* "running", or "unloaded" once beforeunload was handled
    obs,                    \* observer: calls counted for the properties
    \* ---- scripted events for the accumulator ----
    script,                 \* the events the stream-session source will deliver, in order
    scriptPos,              \* how many of them have been delivered
    \* ---- scripted reads for the stability function ----
    stabInput,              \* the get-session bodies the service will return, in order
    stabPos,                \* how many of them have been read
    \* ---- scripted operations on the stored session ----
    lastOp                  \* the operation applied last ("none" at the start)

pollVars == <<pollSession, isWaitingForResponse, pollAttempts, previousResponses,
              stableContent, pollPc, pollDom, pollStatus, pollObs>>
pushVars == <<currentSession, turns, dom, statusText, localStorage, endRequests, page,
              obs>>
stabVars == <<stabInput, stabPos, script, scriptPos, lastOp>>

Null == "null"

\* ---- program constants ----
MAX_POLL_ATTEMPTS == 100
STABILITY_CHECK_COUNT == 5
SAVED_HISTORY_LIMIT == 20

\* ---- bounds of the model ----
MaxPollTurns == 2
MaxReads == 7
MaxTurns == 3
MaxResponseLen == 2
MaxScript == 4
MaxResetTurns == 2
MaxHistory == 22
\* no page is opened once this many end-session requests are on the wire
MaxEndRequests == 2

\* ---- inputs ----
Models == {"gpt-b"}
Messages == {"", "hi"}
\* the value of messageInput: a message between leading and trailing whitespace
Paddings == {"", " "}
InputValues == [lead : Paddings, body : Messages, trail : Paddings]
\* String.prototype.trim: the value without its leading and trailing whitespace
Trim(value) == value.body
Keys == {Null, "k1"}
SessionIds == {Null, "s1"}

UserMsg(c) == [role |-> "user", content |-> c]
AssistantMsg(c) == [role |-> "assistant", content |-> c]
\* an entry of the other remote shape: a bare text fragment has no role property
TextFragment(c) == [role |-> "undefined", content |-> c]

\* get-session bodies: chat missing (not an array), or an array of entries
NoChat == [isArray |-> FALSE, chat |-> <<>>]
Chat(entries) == [isArray |-> TRUE, chat |-> entries]
StabData ==
    { Chat(<<UserMsg("hi")>>),
      Chat(<<UserMsg("hi"), AssistantMsg("AB")>>),
      Chat(<<UserMsg("hi"), AssistantMsg("ABC")>>) }
PollData ==
    StabData \cup
    { NoChat,
      Chat(<<UserMsg("hi"), AssistantMsg("")>>),
      Chat(<<AssistantMsg("AB"), UserMsg("hi")>>),
      Chat(<<TextFragment("AB"), TextFragment("C")>>) }

Max(S) == CHOOSE x \in S : \A y \in S : y <= x

(***************************************************************************)
(* Poll variant: pure helpers of pollForResponse                           *)
(***************************************************************************)

\* data.chat.slice().reverse().find(msg => msg.role === 'assistant'), then
\* lastMessage && lastMessage.content: "" when there is none or it is empty
LastAssistantContent(data) ==
    IF ~data.isArray THEN ""
    ELSE LET idx == {i \in 1..Len(data.chat) : data.chat[i].role = "assistant"}
         IN  IF idx = {} THEN "" ELSE data.chat[Max(idx)].content

PushResponseNoShift(prev, c) == Append(prev, c)

\* previousResponses.push(c); if longer than STABILITY_CHECK_COUNT, shift()
PushResponse(prev, c) ==
    LET w == Append(prev, c)
    IN  IF Len(w) > STABILITY_CHECK_COUNT THEN Tail(w) ELSE w

\* length === STABILITY_CHECK_COUNT && every(content => content === w[0])
IsStable(w) ==
    /\ Len(w) = STABILITY_CHECK_COUNT
    /\ \A i \in 1..Len(w) : w[i] = w[1]

\* setInputState(enabled) of script.js: also flips isWaitingForResponse
PollDomState(enabled) ==
    [messageInput |-> ~enabled, sendButton |-> ~enabled, modelSelect |-> ~enabled]

(***************************************************************************)
(* Poll variant: state after construction                                  *)
(***************************************************************************)
PollFresh ==
    /\ pollSession = [key |-> Null, sessionId |-> Null, model |-> Null, history |-> <<>>]
    /\ isWaitingForResponse = FALSE
    /\ pollAttempts = 0
    /\ previousResponses = <<>>
    /\ stableContent = ""
    /\ pollPc = "idle"
    /\ pollDom \in {[messageInput |-> FALSE, sendButton |-> b, modelSelect |-> FALSE] :
                        b \in BOOLEAN}
    /\ pollStatus = "Select a model to begin"
    /\ pollObs = [turns |-> 0, fetches |-> 0, enables |-> 0, errors |-> 0]

StabIdle ==
    /\ stabInput = <<>>
    /\ stabPos = 0
    /\ script = <<>>
    /\ scriptPos = 0
    /\ lastOp = "none"

(***************************************************************************)
(* Poll variant: the handlers of src/script.js.  One call of               *)
(* handleSendMessage is in progress at a time (pollPc says where it is     *)
(* suspended); what runs between two awaits is one atomic step.            *)
(***************************************************************************)

\* catch block of handleSendMessage: showError, setInputState(true), showLoading(false)
PollCatch ==
    /\ isWaitingForResponse' = FALSE
    /\ pollDom' = PollDomState(TRUE)
    /\ pollPc' = "idle"
    /\ pollObs' = [pollObs EXCEPT !.errors = @ + 1, !.enables = @ + 1]

LoopContinuesOffByOne(n) == n <= MAX_POLL_ATTEMPTS

\* while (pollAttempts < MAX_POLL_ATTEMPTS)
LoopContinues(n) == n < MAX_POLL_ATTEMPTS

\* pollForResponse up to its first await: reset the run, test the loop, issue a fetch
PollEnter ==
    /\ pollAttempts' = 0
    /\ previousResponses' = <<>>
    /\ stableContent' = ""
    /\ pollPc' = "fetching"

PollHandleModelChange(m) ==
    /\ ~pollDom.modelSelect
    /\ IF m # ""
       THEN /\ pollSession' = [pollSession EXCEPT !.model = m]
            /\ pollDom' = [pollDom EXCEPT !.sendButton = FALSE]
            /\ pollStatus' = "Ready with " \o m
       ELSE /\ pollDom' = [pollDom EXCEPT !.sendButton = TRUE]
            /\ pollStatus' = "Select a model to begin"
            /\ UNCHANGED pollSession
    /\ UNCHANGED <<isWaitingForResponse, pollAttempts, previousResponses,
                   stableContent, pollPc, pollObs>>

\* click on sendButton, or Enter in messageInput: either control must be enabled
PollHandleSendMessage(value) ==
    /\ ~pollDom.sendButton \/ ~pollDom.messageInput
    /\ LET message == Trim(value) IN
       IF message = "" \/ pollSession.model = Null \/ isWaitingForResponse
       THEN UNCHANGED pollVars
       ELSE /\ pollObs.turns < MaxPollTurns
            /\ pollSession' = [pollSession EXCEPT
                                 !.history = Append(@, UserMsg(message))]
            /\ isWaitingForResponse' = TRUE
            /\ pollDom' = PollDomState(FALSE)
            /\ IF pollSession.key = Null \/ pollSession.sessionId = Null
               THEN \* startNewSession: fetch(start-session) issued
                    /\ pollStatus' = "Starting new session..."
                    /\ pollPc' = "startSession"
                    /\ pollObs' = [turns |-> pollObs.turns + 1, fetches |-> 0,
                                   enables |-> 0, errors |-> 0]
                    /\ UNCHANGED <<pollAttempts, previousResponses, stableContent>>
               ELSE \* getSessionResponse: straight into pollForResponse
                    /\ pollStatus' = "Getting response..."
                    /\ PollEnter
                    /\ pollObs' = [turns |-> pollObs.turns + 1, fetches |-> 1,
                                   enables |-> 0, errors |-> 0]

\* startNewSession that polls whatever the start-session response was
PollStartSessionResponsePollingAnyway(ok, k, s) ==
    /\ pollPc = "startSession"
    /\ pollSession' = [pollSession EXCEPT !.key = k, !.sessionId = s]
    /\ pollStatus' = "Session started"
    /\ PollEnter
    /\ pollObs' = [pollObs EXCEPT !.fetches = 1]
    /\ UNCHANGED <<isWaitingForResponse, pollDom>>

\* the start-session fetch settles: ok is response.ok (FALSE also for a rejected fetch)
PollStartSessionResponse(ok, k, s) ==
    /\ pollPc = "startSession"
    /\ IF ok /\ k # Null /\ s # Null
       THEN /\ pollSession' = [pollSession EXCEPT !.key = k, !.sessionId = s]
            /\ pollStatus' = "Session started"
            /\ PollEnter
            /\ pollObs' = [pollObs EXCEPT !.fetches = 1]
            /\ UNCHANGED <<isWaitingForResponse, pollDom>>
       ELSE /\ PollCatch
            /\ UNCHANGED <<pollSession, pollAttempts, previousResponses,
                           stableContent, pollStatus>>

PollFetchResponseSkippingFailure(ok, data) ==
    /\ pollPc = "fetching"
    /\ ~ok
    /\ pollAttempts' = pollAttempts + 1
    /\ pollPc' = "sleeping"
    /\ UNCHANGED <<pollSession, previousResponses, stableContent, pollStatus,
                   isWaitingForResponse, pollDom, pollObs>>

\* one get-session fetch settles: the rest of the loop body, up to sleep() or break
PollFetchResponse(ok, data) ==
    /\ pollPc = "fetching"
    /\ IF ~ok
       THEN /\ PollCatch
            /\ UNCHANGED <<pollSession, pollAttempts, previousResponses,
                           stableContent, pollStatus>>
       ELSE LET c == LastAssistantContent(data)
                w == IF c # "" THEN PushResponse(previousResponses, c)
                               ELSE previousResponses
            IN  IF c # "" /\ IsStable(w)
                THEN \* break; showLoading(false); history.push; setInputState(true)
                     /\ previousResponses' = w
                     /\ stableContent' = w[1]
                     /\ pollSession' = [pollSession EXCEPT
                                          !.history = Append(@, AssistantMsg(w[1]))]
                     /\ pollStatus' = "Ready"
                     /\ isWaitingForResponse' = FALSE
                     /\ pollDom' = PollDomState(TRUE)
                     /\ pollPc' = "idle"
                     /\ pollObs' = [pollObs EXCEPT !.enables = @ + 1]
                     /\ UNCHANGED pollAttempts
                ELSE \* pollAttempts++; await sleep(POLL_INTERVAL)
                     /\ previousResponses' = w
                     /\ pollStatus' = IF c # "" THEN "Receiving response..."
                                                ELSE pollStatus
                     /\ pollAttempts' = pollAttempts + 1
                     /\ pollPc' = "sleeping"
                     /\ UNCHANGED <<pollSession, stableContent, isWaitingForResponse,
                                    pollDom, pollObs>>

PollSleepDoneReturningLast ==
    /\ pollPc = "sleeping"
    /\ IF LoopContinues(pollAttempts)
       THEN /\ pollPc' = "fetching"
            /\ pollObs' = [pollObs EXCEPT !.fetches = @ + 1]
            /\ UNCHANGED <<pollSession, isWaitingForResponse, pollAttempts,
                           previousResponses, stableContent, pollDom, pollStatus>>
       ELSE IF previousResponses # <<>>
       THEN /\ pollSession' = [pollSession EXCEPT !.history =
                   Append(@, AssistantMsg(previousResponses[Len(previousResponses)]))]
            /\ pollStatus' = "Ready"
            /\ isWaitingForResponse' = FALSE
            /\ pollDom' = PollDomState(TRUE)
            /\ pollPc' = "idle"
            /\ pollObs' = [pollObs EXCEPT !.enables = @ + 1]
            /\ UNCHANGED <<pollAttempts, previousResponses, stableContent>>
       ELSE /\ PollCatch
            /\ UNCHANGED <<pollSession, pollAttempts, previousResponses,
                           stableContent, pollStatus>>

\* the sleep timer fires: the loop test, then the next fetch or the exit without
\* stableContent (throw 'Response did not stabilize', caught by handleSendMessage)
PollSleepDone ==
    /\ pollPc = "sleeping"
    /\ IF LoopContinues(pollAttempts)
       THEN /\ pollPc' = "fetching"
            /\ pollObs' = [pollObs EXCEPT !.fetches = @ + 1]
            /\ UNCHANGED <<pollSession, isWaitingForResponse, pollAttempts,
                           previousResponses, stableContent, pollDom, pollStatus>>
       ELSE /\ PollCatch
            /\ UNCHANGED <<pollSession, pollAttempts, previousResponses,
                           stableContent, pollStatus>>

\* the body of the fetch a call of handleSendMessage is suspended on: start-session
\* carries {model, history}, get-session carries {key, session_id}
NoRequest == [endpoint |-> "none"]
PollRequest(session, pc) ==
    IF pc = "startSession"
    THEN [endpoint |-> "start-session", model |-> session.model,
          history |-> session.history]
    ELSE IF pc = "fetching"
    THEN [endpoint |-> "get-session", key |-> session.key,
          session_id |-> session.sessionId]
    ELSE NoRequest

PollFrame == UNCHANGED <<stabVars, pushVars>>

PollModelChangeStep ==
    /\ \E m \in Models \cup {""} : PollHandleModelChange(m)
    /\ PollFrame
PollSendStep ==
    /\ \E value \in InputValues : PollHandleSendMessage(value)
    /\ PollFrame
PollStartSessionStep ==
    /\ \E ok \in BOOLEAN, k \in Keys, s \in SessionIds :
           PollStartSessionResponse(ok, k, s)
    /\ PollFrame
PollFetchStep ==
    /\ \E ok \in BOOLEAN, data \in PollData : PollFetchResponse(ok, data)
    /\ PollFrame
PollSleepStep ==
    /\ PollSleepDone
    /\ PollFrame

(***************************************************************************)
(* Push variant (src/unnamed/part_000).  The program state is gathered in  *)
(* one record so that the calls a handler makes compose as functions.      *)
(* A handler runs to completion; the continuation of an await whose        *)
(* promise settles inside a handler runs as a microtask right after it,    *)
(* before any other event, so it belongs to the same step.                 *)
(***************************************************************************)
Turns == 1..MaxTurns
NoSource == 0

FreshSession(model) ==
    [key |-> Null, sessionId |-> Null, model |-> model, history |-> <<>>,
     eventSource |-> NoSource, isStreaming |-> FALSE]

FreshTurn ==
    [pc |-> "none", message |-> "", fullResponse |-> "", source |-> "none",
     timer |-> "none", promise |-> "none"]

\* observer: setInputState(true) calls since the last setInputState(false)
FreshObs == [enables |-> 0]

PushFresh ==
    /\ currentSession = FreshSession(Null)
    /\ turns = [t \in Turns |-> FreshTurn]
    /\ dom \in {[messageInput |-> FALSE, sendButton |-> b, modelSelect |-> FALSE] :
                    b \in BOOLEAN}
    /\ statusText = "Select a model to begin"
    /\ localStorage = [chatSession |-> <<>>, selectedModel |-> Null]
    /\ endRequests = <<>>
    /\ page = "running"
    /\ obs = FreshObs

St ==
    [cs |-> currentSession, turns |-> turns, dom |-> dom, status |-> statusText,
     storage |-> localStorage, ends |-> endRequests, page |-> page, obs |-> obs]

Is(S) ==
    /\ currentSession = S.cs
    /\ turns = S.turns
    /\ dom = S.dom
    /\ statusText = S.status
    /\ localStorage = S.storage
    /\ endRequests = S.ends
    /\ page = S.page
    /\ obs = S.obs

Becomes(S) ==
    /\ currentSession' = S.cs
    /\ turns' = S.turns
    /\ dom' = S.dom
    /\ statusText' = S.status
    /\ localStorage' = S.storage
    /\ endRequests' = S.ends
    /\ page' = S.page
    /\ obs' = S.obs

\* the turn the next accepted handleSendMessage call starts
NextTurn == Cardinality({t \in Turns : turns[t].pc # "none"}) + 1

\* history.slice(-n)
LastN(h, n) == IF Len(h) <= n THEN h ELSE SubSeq(h, Len(h) - n + 1, Len(h))

\* setInputState(enabled), called by the code of turn t
SetInputState(S, t, enabled) ==
    [S EXCEPT !.dom = [messageInput |-> ~enabled, sendButton |-> ~enabled,
                       modelSelect |-> ~enabled],
              !.obs.enables = IF enabled THEN @ + 1 ELSE 0]

\* saveSessionToStorage
SaveSessionToStorage(S) ==
    [S EXCEPT !.storage.chatSession =
        << [key |-> S.cs.key, sessionId |-> S.cs.sessionId, model |-> S.cs.model,
            history |-> LastN(S.cs.history, SAVED_HISTORY_LIMIT)] >>]

CatchRollingBack(S, t) ==
    LET S1 == SetInputState(S, t, TRUE)
    IN  [S1 EXCEPT !.turns[t].pc = "failed",
                   !.cs.history = IF @ = <<>> THEN @ ELSE SubSeq(@, 1, Len(@) - 1)]

\* catch block of handleSendMessage of turn t, after which the call returns
Catch(S, t) ==
    LET S1 == SetInputState(S, t, TRUE)
    IN  [S1 EXCEPT !.turns[t].pc = "failed"]

\* reject(error) on the promise of turn t: the first settlement wins; a rejection
\* resumes handleSendMessage in its catch block
Reject(S, t) ==
    IF S.turns[t].promise = "pending"
    THEN Catch([S EXCEPT !.turns[t].promise = "rejected"], t)
    ELSE S

\* resolve() on the promise of turn t: handleSendMessage returns normally
Resolve(S, t) ==
    IF S.turns[t].promise = "pending"
    THEN [S EXCEPT !.turns[t].promise = "resolved", !.turns[t].pc = "returned"]
    ELSE S

\* currentSession.eventSource.close(); isStreaming = false; eventSource = null
CloseAndClear(S) ==
    [S EXCEPT !.turns[S.cs.eventSource].source = "closed",
              !.cs.isStreaming = FALSE,
              !.cs.eventSource = NoSource]

\* startStreamingResponse, called by handleSendMessage of turn t
StartStreamingResponse(S, t) ==
    IF S.cs.sessionId = Null \/ S.cs.key = Null
    THEN Catch([S EXCEPT !.turns[t].promise = "rejected"], t)
    ELSE LET S1 == IF S.cs.eventSource # NoSource
                   THEN [S EXCEPT !.turns[S.cs.eventSource].source = "closed"]
                   ELSE S
         IN  [S1 EXCEPT !.cs.isStreaming = TRUE,
                        !.cs.eventSource = t,
                        !.turns[t] = [@ EXCEPT !.pc = "streaming", !.source = "open",
                                               !.timer = "pending",
                                               !.promise = "pending",
                                               !.fullResponse = ""]]

\* handleSendMessage past its guard, up to the await of the first fetch
SendMessage(S, t, message) ==
    LET S1 == [S EXCEPT !.cs.history = Append(@, UserMsg(message)),
                        !.turns[t].message = message]
        S2 == SetInputState(S1, t, FALSE)
    IN  IF S.cs.key = Null \/ S.cs.sessionId = Null
        THEN [S2 EXCEPT !.status = "Starting new session...",
                        !.turns[t].pc = "startSession"]
        ELSE [S2 EXCEPT !.status = "Sending message...",
                        !.turns[t].pc = "continue"]

\* startNewSession that takes whichever of key and session_id the response has
StartNewSessionResponseTakingPartial(S, t, ok, k, s) ==
    IF ok /\ (k # Null \/ s # Null)
    THEN LET S1 == [S EXCEPT !.cs.key = k, !.cs.sessionId = s,
                             !.status = "Session started, receiving response..."]
         IN  StartStreamingResponse(SaveSessionToStorage(S1), t)
    ELSE Catch(S, t)

\* startNewSession after its fetch settled, then the rest of handleSendMessage
StartNewSessionResponse(S, t, ok, k, s) ==
    IF ok /\ k # Null /\ s # Null
    THEN LET S1 == [S EXCEPT !.cs.key = k, !.cs.sessionId = s,
                             !.status = "Session started, receiving response..."]
         IN  StartStreamingResponse(SaveSessionToStorage(S1), t)
    ELSE Catch(S, t)

\* continueSession after its fetch settled, then the rest of handleSendMessage
ContinueSessionResponse(S, t, ok) ==
    IF ok
    THEN StartStreamingResponse([S EXCEPT !.status = "Receiving response..."], t)
    ELSE Catch(S, t)


\* the events a stream-session source delivers: data that JSON.parse rejects, an
\* object with an error field, or an object with optional content and done
EventsWith(contents) ==
    {[kind |-> "malformed", content |-> "", done |-> FALSE],
     [kind |-> "error", content |-> "", done |-> FALSE]}
    \cup {[kind |-> "data", content |-> c, done |-> d] : c \in contents, d \in BOOLEAN}
\* the events of a scripted stream, and those of the full state machine
ScriptEvents == EventsWith({"", "He", "llo"})
Events == EventsWith({"", "He"})

AccumulatePrepending(full, content) == content \o full

\* fullResponse += data.content
Accumulate(full, content) == full \o content

CompleteWithoutSaving(S, t) ==
    LET full == S.turns[t].fullResponse
        S1 == CloseAndClear(S)
        S2 == IF full # ""
              THEN [S1 EXCEPT !.cs.history = Append(@, AssistantMsg(full))]
              ELSE S1
    IN  Resolve([SetInputState(S2, t, TRUE) EXCEPT !.status = "Ready"], t)

\* the completion branch of onmessage (if (data.done) { ... })
Complete(S, t) ==
    IF S.cs.eventSource = NoSource
    THEN \* null.close() throws inside the try block: caught, reject(error)
         Reject(S, t)
    ELSE LET full == S.turns[t].fullResponse
             S1 == CloseAndClear(S)
             S2 == IF full # ""
                   THEN [S1 EXCEPT !.cs.history = Append(@, AssistantMsg(full))]
                   ELSE S1
             S3 == SetInputState(SaveSessionToStorage(S2), t, TRUE)
         IN  Resolve([S3 EXCEPT !.status = "Ready"], t)

\* eventSource.onmessage of the source opened by turn t
OnMessageHandler(S, t, ev) ==
    IF ev.kind # "data"
    THEN \* JSON.parse throws, or throw new Error(data.error): catch, reject(error)
         Reject(S, t)
    ELSE LET S1 == IF ev.content # ""
                   THEN [S EXCEPT !.turns[t].fullResponse =
                                      Accumulate(@, ev.content)]
                   ELSE S
         IN  IF ev.done THEN Complete(S1, t) ELSE S1

\* eventSource.onerror of the source opened by turn t
OnErrorHandler(S, t) ==
    IF S.cs.eventSource = NoSource
    THEN S  \* null.close() throws out of the handler: nothing else runs
    ELSE LET S1 == SetInputState(CloseAndClear(S), t, TRUE)
         IN  Reject([S1 EXCEPT !.status = "Connection error"], t)

\* the setTimeout callback of turn t (30 s after the source was opened)
TimeoutHandler(S, t) ==
    LET S0 == [S EXCEPT !.turns[t].timer = "fired"]
    IN  IF ~S.cs.isStreaming THEN S0
        ELSE IF S.cs.eventSource = NoSource
        THEN S0  \* null.close() throws out of the callback
        ELSE LET S1 == SetInputState(CloseAndClear(S0), t, TRUE)
             IN  Resolve([S1 EXCEPT !.status = "Timeout"], t)

EndCurrentSessionWithoutClosing(S) ==
    [S EXCEPT !.ends = Append(@, [session_id |-> S.cs.sessionId, key |-> S.cs.key])]

\* endCurrentSession up to its await: close the source, issue the end-session fetch
EndCurrentSession(S) ==
    LET S1 == IF S.cs.eventSource # NoSource
              THEN [S EXCEPT !.turns[S.cs.eventSource].source = "closed"]
              ELSE S
    IN  [S1 EXCEPT !.ends = Append(@, [session_id |-> S.cs.sessionId,
                                       key |-> S.cs.key])]

\* the end-session fetch settles: nothing follows the await in endCurrentSession,
\* its catch only logs a failure, and cleanupResources ignores the result
EndSessionResponse(S, ok) == S

\* clearChat after confirm() returned true
ClearChatConfirmed(S) ==
    LET S1 == IF S.cs.sessionId # Null /\ S.cs.key # Null
              THEN EndCurrentSession(S)
              ELSE S
    IN  [S1 EXCEPT !.cs = FreshSession(S.cs.model),
                   !.storage.chatSession = <<>>,
                   !.status = IF S.cs.model # Null
                              THEN "Ready with " \o S.cs.model
                              ELSE "Select a model to begin"]

\* cleanupResources, the beforeunload listener: close the source, issue the
\* end-session fetch without awaiting it; the page is gone afterwards
CleanupResources(S) ==
    LET S1 == IF S.cs.eventSource # NoSource
              THEN [S EXCEPT !.turns[S.cs.eventSource].source = "closed"]
              ELSE S
        S2 == IF S.cs.sessionId # Null /\ S.cs.key # Null
              THEN [S1 EXCEPT !.ends = Append(@, [session_id |-> S.cs.sessionId,
                                                  key |-> S.cs.key])]
              ELSE S1
    IN  [S2 EXCEPT !.page = "unloaded"]

\* A stored text is represented by the value it denotes: sessionData holds only
\* null, strings and an array of {role, content} objects of strings, which
\* JSON.stringify and JSON.parse carry over unchanged.  Other texts a page can
\* find in the entry: one that JSON.parse rejects, the text null, and an object
\* whose history array has a null entry.
Unparseable == [unparseable |-> TRUE]
JsonNullText == [jsonNull |-> TRUE]
NullEntry == [isNull |-> TRUE]

\* loadSavedSession
LoadSavedSession(S) ==
    LET saved == S.storage.chatSession
        savedModel == S.storage.selectedModel
        \* if (savedModel && modelSelect) { ... }
        RestoreModel(S1) ==
            IF savedModel # Null
            THEN [S1 EXCEPT !.cs.model = savedModel, !.dom.sendButton = FALSE]
            ELSE S1
        \* catch: localStorage.removeItem('chatSession')
        Discard(S1) == [S1 EXCEPT !.storage.chatSession = <<>>]
    IN  IF saved = <<>> THEN RestoreModel(S)
        ELSE IF saved[1] = Unparseable \/ saved[1] = JsonNullText
        THEN \* JSON.parse throws, or sessionData.key of null throws
             Discard(S)
        ELSE LET sessionData == saved[1]
                 S1 == [S EXCEPT !.cs.key = sessionData.key,
                                 !.cs.sessionId = sessionData.sessionId,
                                 !.cs.model = sessionData.model,
                                 !.cs.history = sessionData.history]
                 S2 == IF sessionData.model # Null
                       THEN [S1 EXCEPT !.dom.sendButton = FALSE]
                       ELSE S1
             IN  IF \E i \in 1..Len(sessionData.history) :
                        sessionData.history[i] = NullEntry
                 THEN \* msg.role of null throws inside forEach
                      Discard(S2)
                 ELSE RestoreModel(
                          IF Len(sessionData.history) > 0
                          THEN [S2 EXCEPT !.status = "Resumed session with "
                                                      \o sessionData.model]
                          ELSE S2)

\* handleModelChange with modelSelect.value = m
ModelChange(S, m) ==
    IF m # ""
    THEN [S EXCEPT !.cs.model = m,
                   !.dom.sendButton = FALSE,
                   !.status = "Ready with " \o m,
                   !.storage.selectedModel = m]
    ELSE [S EXCEPT !.dom.sendButton = TRUE,
                   !.status = "Select a model to begin"]

\* the body of the fetch the call of turn t is suspended on: start-session
\* carries {model, history}, continue-session carries {session_id, key, message}
Request(session, turn) ==
    IF turn.pc = "startSession"
    THEN [endpoint |-> "start-session", model |-> session.model,
          history |-> session.history]
    ELSE IF turn.pc = "continue"
    THEN [endpoint |-> "continue-session", session_id |-> session.sessionId,
          key |-> session.key, message |-> turn.message]
    ELSE NoRequest

(***************************************************************************)
(* Push variant: the steps                                                 *)
(***************************************************************************)
PushFrame == UNCHANGED <<pollVars, stabVars>>

\* the listeners and callbacks of a page run while the page is there
Running == page = "running"

HandleModelChange(m) ==
    /\ Running
    /\ ~dom.modelSelect
    /\ Becomes(ModelChange(St, m))

\* handleSendMessage with a guard that does not look at the model
HandleSendMessageWithoutModel(value) ==
    /\ Running
    /\ ~dom.sendButton \/ ~dom.messageInput
    /\ LET message == Trim(value) IN
       IF message = "" \/ currentSession.isStreaming
       THEN UNCHANGED pushVars
       ELSE /\ NextTurn \in Turns
            /\ Becomes(SendMessage(St, NextTurn, message))

\* click on sendButton, or Enter in messageInput: either control must be enabled
HandleSendMessage(value) ==
    /\ Running
    /\ ~dom.sendButton \/ ~dom.messageInput
    /\ LET message == Trim(value) IN
       IF message = "" \/ currentSession.model = Null \/ currentSession.isStreaming
       THEN UNCHANGED pushVars
       ELSE /\ NextTurn \in Turns
            /\ Becomes(SendMessage(St, NextTurn, message))

\* the start-session fetch of turn t settles (ok = FALSE also for a rejected fetch)
StartSessionSettles(t, ok, k, s) ==
    /\ Running
    /\ turns[t].pc = "startSession"
    /\ Becomes(StartNewSessionResponse(St, t, ok, k, s))

\* the continue-session fetch of turn t settles
ContinueSessionSettles(t, ok) ==
    /\ Running
    /\ turns[t].pc = "continue"
    /\ Becomes(ContinueSessionResponse(St, t, ok))

\* an open source delivers an event
OnMessage(t, ev) ==
    /\ Running
    /\ turns[t].source = "open"
    /\ Becomes(OnMessageHandler(St, t, ev))

\* an open source reports a channel error
OnError(t) ==
    /\ Running
    /\ turns[t].source = "open"
    /\ Becomes(OnErrorHandler(St, t))

\* the 30 s timer of turn t fires; timers of equal delay fire in the order set
Timeout(t) ==
    /\ Running
    /\ turns[t].timer = "pending"
    /\ \A u \in Turns : u < t => turns[u].timer # "pending"
    /\ Becomes(TimeoutHandler(St, t))

\* click on the clear button (never disabled); confirm() answers
ClearChat(confirmed) ==
    /\ Running
    /\ IF confirmed THEN Becomes(ClearChatConfirmed(St)) ELSE UNCHANGED pushVars

\* an end-session fetch settles (ok = FALSE also for a rejected fetch); the
\* request outlives the page that issued it
EndSessionSettles(ok) ==
    /\ endRequests # <<>>
    /\ Becomes(EndSessionResponse(St, ok))

\* the page is torn down (navigation, reload, tab closed): beforeunload fires
Teardown ==
    /\ Running
    /\ Becomes(CleanupResources(St))

\* (deselecting, modelSelect.value = "", only disables sendButton: left out of the
\* steps to keep the state space small; Enter in messageInput still sends)
ModelChangeStep ==
    /\ \E m \in Models : HandleModelChange(m)
    /\ PushFrame
SendStep ==
    /\ \E value \in InputValues : HandleSendMessage(value)
    /\ PushFrame
StartSessionStep ==
    /\ \E t \in Turns, ok \in BOOLEAN, k \in Keys, s \in SessionIds :
           StartSessionSettles(t, ok, k, s)
    /\ PushFrame
ContinueSessionStep ==
    /\ \E t \in Turns, ok \in BOOLEAN : ContinueSessionSettles(t, ok)
    /\ PushFrame
MessageStep ==
    /\ \E t \in Turns, ev \in Events :
           /\ Len(turns[t].fullResponse) + Len(ev.content) <= MaxResponseLen
           /\ OnMessage(t, ev)
    /\ PushFrame
ErrorStep ==
    /\ \E t \in Turns : OnError(t)
    /\ PushFrame
TimeoutStep ==
    /\ \E t \in Turns : Timeout(t)
    /\ PushFrame
ClearChatStep ==
    /\ \E confirmed \in BOOLEAN : ClearChat(confirmed)
    /\ PushFrame
ResetSendStep ==
    /\ NextTurn <= MaxResetTurns
    /\ SendStep
TeardownStep ==
    /\ Teardown
    /\ PushFrame
\* a page runs one variant: the poll variant's session establishment, on a page
\* where the push variant's script has done nothing
ResetPollStep ==
    /\ PushFresh
    /\ PollModelChangeStep \/ PollSendStep \/ PollStartSessionStep
EndSessionStep ==
    /\ \E ok \in BOOLEAN : EndSessionSettles(ok)
    /\ PushFrame

(***************************************************************************)
(* The accumulator on a scripted sequence of events: the first turn of a   *)
(* session (model chosen, "hi" sent, start-session answered with k1/s1),   *)
(* whose source then delivers events fixed in advance.                     *)
(***************************************************************************)
FreshState ==
    [cs |-> FreshSession(Null), turns |-> [t \in Turns |-> FreshTurn],
     dom |-> [messageInput |-> FALSE, sendButton |-> TRUE, modelSelect |-> FALSE],
     status |-> "Select a model to begin",
     storage |-> [chatSession |-> <<>>, selectedModel |-> Null],
     ends |-> <<>>, page |-> "running", obs |-> FreshObs]

StreamingState ==
    StartNewSessionResponse(
        SendMessage(ModelChange(FreshState, "gpt-b"), 1, "hi"), 1, TRUE, "k1", "s1")

StreamStart ==
    /\ Is(StreamingState)
    /\ script \in UNION {[1..n -> ScriptEvents] : n \in 0..MaxScript}
    /\ scriptPos = 0
    /\ stabInput = <<>>
    /\ stabPos = 0
    /\ lastOp = "none"
    /\ PollFresh

StreamDeliver ==
    /\ scriptPos < Len(script)
    /\ OnMessage(1, script[scriptPos + 1])
    /\ scriptPos' = scriptPos + 1
    /\ UNCHANGED <<script, stabInput, stabPos, lastOp, pollVars>>

StreamTimeout ==
    /\ Timeout(1)
    /\ UNCHANGED <<stabVars, pollVars>>

(***************************************************************************)
(* The stored session: a page whose in-memory session and stored entry are *)
(* drawn from bounded sets, on which the operations that write, read or    *)
(* remove the entry are applied: saveSessionToStorage, clearChat, a model  *)
(* change, and a reload (teardown, then init of the next page with         *)
(* loadSavedSession).  lastOp is the last of them that wrote the session   *)
(* or the entry.                                                           *)
(***************************************************************************)
StoreModels == {"gpt-a", "gpt-b"}

\* a history of n messages, user and assistant in turn, contents of period 3
Hist(n, ph) ==
    [i \in 1..n |->
        [role |-> IF i % 2 = 1 THEN "user" ELSE "assistant",
         content |-> IF (i + ph) % 3 = 0 THEN "hi"
                     ELSE IF (i + ph) % 3 = 1 THEN "AB" ELSE "ABC"]]

\* the sessions a running page can hold: key and sessionId as startNewSession
\* and clearChat leave them, a model once one was chosen
StoreSessions ==
    {FreshSession(Null)} \cup
    {[key |-> ks[1], sessionId |-> ks[2], model |-> m, history |-> Hist(n, ph),
      eventSource |-> NoSource, isStreaming |-> FALSE] :
        ks \in {<<Null, Null>>, <<"k1", "s1">>}, m \in StoreModels,
        n \in 0..MaxHistory, ph \in 0..2}

\* what the chatSession entry can hold when a page starts: nothing, a snapshot an
\* earlier page saved, or a text that does not load
StoredEntries ==
    {<<>>, <<Unparseable>>, <<JsonNullText>>,
     <<[key |-> "k1", sessionId |-> "s1", model |-> "gpt-a",
        history |-> <<UserMsg("hi"), NullEntry>>]>>,
     <<[key |-> "k1", sessionId |-> "s1", model |-> "gpt-a", history |-> Hist(3, 0)]>>}

\* a turn of a page that is gone: its source is closed by the browser, its timer
\* and its callbacks never run
Unloaded(turn) ==
    IF turn.pc = "none" THEN turn
    ELSE [FreshTurn EXCEPT !.pc = "unloaded",
                           !.source = IF turn.source = "none" THEN "none"
                                      ELSE "closed"]

\* the state of a new page before init: the storage and the requests on the wire
\* outlive the page
NewPage(S, sendDisabled) ==
    [FreshState EXCEPT !.dom.sendButton = sendDisabled,
                       !.storage = S.storage,
                       !.ends = S.ends,
                       !.turns = [t \in Turns |-> Unloaded(S.turns[t])]]

\* init of a page, after loadModels and setupEventListeners
PageInit(S, sendDisabled) == LoadSavedSession(NewPage(S, sendDisabled))

StoreStart ==
    /\ \E session \in StoreSessions :
          /\ currentSession = session
          /\ dom = [messageInput |-> FALSE, sendButton |-> session.model = Null,
                    modelSelect |-> FALSE]
          /\ \E entry \in StoredEntries :
                localStorage = [chatSession |-> entry, selectedModel |-> session.model]
    /\ turns = [t \in Turns |-> FreshTurn]
    /\ statusText = "Ready"
    /\ endRequests = <<>>
    /\ page = "running"
    /\ obs = FreshObs
    /\ StabIdle
    /\ pollSession = [key |-> Null, sessionId |-> Null, model |-> Null, history |-> <<>>]
    /\ isWaitingForResponse = FALSE
    /\ pollAttempts = 0
    /\ previousResponses = <<>>
    /\ stableContent = ""
    /\ pollPc = "idle"
    /\ pollDom = PollDomState(TRUE)
    /\ pollStatus = "Select a model to begin"
    /\ pollObs = [turns |-> 0, fetches |-> 0, enables |-> 0, errors |-> 0]

StoreFrame == UNCHANGED <<stabInput, stabPos, script, scriptPos, pollVars>>

\* saveSessionToStorage is called by startNewSession and by the completion of a
\* turn, both past the guard of handleSendMessage: a model is selected
StoreSave ==
    /\ Running
    /\ currentSession.model # Null
    /\ Becomes(SaveSessionToStorage(St))
    /\ lastOp' = "save"
    /\ StoreFrame

\* the page is opened again after a teardown: init of the new page
PageLoad(sendDisabled) ==
    /\ page = "unloaded"
    /\ Len(endRequests) < MaxEndRequests
    /\ Becomes(PageInit(St, sendDisabled))

PageLoadStep ==
    /\ \E sendDisabled \in BOOLEAN : PageLoad(sendDisabled)
    /\ lastOp' = "load"
    /\ UNCHANGED <<stabInput, stabPos, script, scriptPos, pollVars>>

StoreClear ==
    /\ ClearChat(TRUE)
    /\ lastOp' = "clear"
    /\ StoreFrame

StoreModelChange ==
    /\ \E m \in Models : HandleModelChange(m)
    /\ lastOp' = "model"
    /\ StoreFrame

(***************************************************************************)
(* The stability function on a scripted sequence of reads: a poll run of   *)
(* an established session whose get-session bodies are fixed in advance.   *)
(***************************************************************************)
StabStart ==
    /\ pollSession = [key |-> "k1", sessionId |-> "s1", model |-> "gpt-b",
                      history |-> <<UserMsg("hi")>>]
    /\ isWaitingForResponse = TRUE
    /\ pollAttempts = 0
    /\ previousResponses = <<>>
    /\ stableContent = ""
    /\ pollPc = "fetching"
    /\ pollDom = PollDomState(FALSE)
    /\ pollStatus = "Session started"
    /\ pollObs = [turns |-> 1, fetches |-> 1, enables |-> 0, errors |-> 0]
    /\ stabInput \in UNION {[1..n -> StabData] : n \in 0..MaxReads}
    /\ stabPos = 0
    /\ script = <<>>
    /\ scriptPos = 0
    /\ lastOp = "none"
    /\ PushFresh

StabRead ==
    /\ stabPos < Len(stabInput)
    /\ PollFetchResponse(TRUE, stabInput[stabPos + 1])
    /\ stabPos' = stabPos + 1
    /\ UNCHANGED <<stabInput, script, scriptPos, lastOp, pushVars>>

StabSleep ==
    /\ PollSleepDone
    /\ UNCHANGED <<stabVars, pushVars>>


(***************************************************************************)
(* Specifications                                                          *)
(***************************************************************************)
vars == <<pollVars, pushVars, stabVars>>

PollInit == PollFresh /\ StabIdle /\ PushFresh
PollNext ==
    \/ PollModelChangeStep
    \/ PollSendStep
    \/ PollStartSessionStep
    \/ PollFetchStep
    \/ PollSleepStep
SpecPoll == PollInit /\ [][PollNext]_vars

\* Every fetch settles (resolves or rejects) and every sleep timer fires.
FairSpecPoll ==
    /\ SpecPoll
    /\ WF_vars(PollStartSessionStep)
    /\ WF_vars(PollFetchStep)
    /\ WF_vars(PollSleepStep)

StabInit == StabStart
StabNext ==
    \/ StabRead
    \/ StabSleep
SpecStab == StabInit /\ [][StabNext]_vars

PushInit == PushFresh /\ PollFresh /\ StabIdle
PushNext ==
    \/ ModelChangeStep
    \/ SendStep
    \/ StartSessionStep
    \/ ContinueSessionStep
    \/ MessageStep
    \/ ErrorStep
    \/ TimeoutStep
    \/ ClearChatStep
SpecPush == PushInit /\ [][PushNext]_vars

\* Every start-session and continue-session fetch settles (resolves or rejects)
\* and every 30 s timer fires; what a source delivers, and when, is the server's
\* choice.
FairSpecPush ==
    /\ SpecPush
    /\ WF_vars(StartSessionStep)
    /\ WF_vars(ContinueSessionStep)
    /\ WF_vars(TimeoutStep)

\* The push variant with page teardown and the end-session requests, over fewer
\* turns.
ResetInit == PushInit
ResetNext ==
    \/ ModelChangeStep
    \/ ResetSendStep
    \/ StartSessionStep
    \/ ContinueSessionStep
    \/ MessageStep
    \/ ErrorStep
    \/ TimeoutStep
    \/ ClearChatStep
    \/ TeardownStep
    \/ EndSessionStep
SpecReset == ResetInit /\ [][ResetNext]_vars

\* The operations that assign key, sessionId or history or that write, read or
\* remove the stored entry, over successive pages: session establishment, the
\* stream's events and errors, reset, teardown and the init of the next page.
\* A page that runs the poll variant establishes its session.
ReloadInit == PushInit
ReloadNext ==
    \/ ModelChangeStep
    \/ ResetSendStep
    \/ StartSessionStep
    \/ ContinueSessionStep
    \/ MessageStep
    \/ ErrorStep
    \/ ClearChatStep
    \/ TeardownStep
    \/ PageLoadStep
    \/ ResetPollStep
SpecReload == ReloadInit /\ [][ReloadNext]_vars

\* A page runs one of the two scripts: the steps of either variant, the other
\* one's state staying as constructed.
BothInit == PushInit
PushVariantStep ==
    /\ PollFresh
    /\ PushNext
PollVariantStep ==
    /\ PushFresh
    /\ PollNext
BothNext ==
    \/ PushVariantStep
    \/ PollVariantStep
SpecBoth == BothInit /\ [][BothNext]_vars

StoreInit == StoreStart
StoreNext ==
    \/ StoreSave
    \/ StoreClear
    \/ StoreModelChange
    \/ TeardownStep
    \/ PageLoadStep
SpecStore == StoreInit /\ [][StoreNext]_vars

StreamInit == StreamStart
StreamNext ==
    \/ StreamDeliver
    \/ StreamTimeout
SpecStream == StreamInit /\ [][StreamNext]_vars

(***************************************************************************)
(* Poll variant: properties                                                *)
(***************************************************************************)
IsNonEmpty(c) == c # ""

\* what the first j scripted reads yield, read by read
Seen(j) == [i \in 1..j |-> LastAssistantContent(stabInput[i])]

\* the j-th read is non-empty and equals the four non-empty reads before it,
\* empty reads in between being left out
StableSkippingEmptyAt(j) ==
    LET ne == SelectSeq(Seen(j), IsNonEmpty)
        n == Len(ne)
    IN  /\ Seen(j)[j] # ""
        /\ n >= STABILITY_CHECK_COUNT
        /\ \A i \in (n - STABILITY_CHECK_COUNT + 1)..n : ne[i] = ne[n]

\* the reads j-4 .. j are all non-empty and equal
StableConsecutiveAt(j) ==
    /\ j >= STABILITY_CHECK_COUNT
    /\ \A i \in (j - STABILITY_CHECK_COUNT + 1)..j :
          Seen(j)[i] # "" /\ Seen(j)[i] = Seen(j)[j]

Declared == stableContent # ""

Resolved(c) ==
    /\ pollPc = "idle"
    /\ stableContent = c
    /\ pollSession.history = <<UserMsg("hi"), AssistantMsg(c)>>

\* C1 (as stated): stability is declared iff at some poll the 5 most recent
\* consecutive reads are all non-empty and pairwise equal; the run stops at the
\* first such poll and resolves with that value.
C1_StableIffFiveConsecutiveReads ==
    /\ Declared => StableConsecutiveAt(stabPos) /\ Resolved(Seen(stabPos)[stabPos])
    /\ \A j \in 1..stabPos : StableConsecutiveAt(j) => j = stabPos /\ Declared

\* C1 (amended): stability is declared iff at some poll the read is non-empty and
\* equal to the four non-empty reads before it (reads without assistant content
\* are skipped and do not restart the window); the run stops at the first such
\* poll and resolves with that value.
C1_StableIffFiveNonEmptyReads ==
    /\ Declared => StableSkippingEmptyAt(stabPos) /\ Resolved(Seen(stabPos)[stabPos])
    /\ \A j \in 1..stabPos : StableSkippingEmptyAt(j) => j = stabPos /\ Declared

\* the reads AB, ABC, ABC, ABC, ABC, ABC resolve with ABC at the 6th poll, and a
\* 7-read script with an empty read inside the window resolves at the 7th
C1_Witness ==
    /\ Declared
    /\ stabPos = 7
    /\ \E i \in 3..6 : Seen(7)[i] = ""
    /\ Seen(7)[1] = "AB" /\ stableContent = "ABC"

\* C2: a poll run issues at most 100 get-session fetches and always ends: a
\* run that is polling eventually leaves the loop with the turn resolved (input
\* re-enabled, with an assistant message or a surfaced error).
C2_PollTerminates ==
    /\ [](pollObs.fetches <= MAX_POLL_ATTEMPTS)
    /\ (pollPc \in {"fetching", "sleeping"})
         ~> (pollPc = "idle" /\ ~isWaitingForResponse /\ ~pollDom.messageInput
             /\ (Declared \/ pollObs.errors = 1))

\* the ceiling was reached: 100 fetches, no stable window, the turn resolved by
\* the error path
C2_Witness ==
    /\ pollPc = "idle"
    /\ pollAttempts = MAX_POLL_ATTEMPTS
    /\ pollObs.fetches = MAX_POLL_ATTEMPTS
    /\ ~Declared
    /\ pollObs.errors = 1
    /\ ~isWaitingForResponse

(***************************************************************************)
(* Push variant: properties                                                *)
(***************************************************************************)
RECURSIVE ConcatContents(_)
ConcatContents(evs) ==
    IF evs = <<>> THEN ""
    ELSE (IF Head(evs).kind = "data" THEN Head(evs).content ELSE "")
         \o ConcatContents(Tail(evs))

Delivered == SubSeq(script, 1, scriptPos)
CompletionDelivered ==
    /\ scriptPos > 0
    /\ script[scriptPos].kind = "data"
    /\ script[scriptPos].done

\* C4: the accumulator of a turn is, after every event and so at the completion
\* signal, the concatenation in arrival order of the fragments delivered so far;
\* at completion that text is what history receives.
C4_AccumulatorIsConcatenation ==
    /\ turns[1].fullResponse = ConcatContents(Delivered)
    /\ CompletionDelivered /\ ConcatContents(Delivered) # "" =>
          currentSession.history =
              <<UserMsg("hi"), AssistantMsg(ConcatContents(Delivered))>>

\* the fragments He, llo and then the completion signal: Hello
C4_Witness ==
    /\ CompletionDelivered
    /\ scriptPos = 3
    /\ script[1].content = "He" /\ script[2].content = "llo"
    /\ turns[1].fullResponse = "Hello"
    /\ currentSession.history = <<UserMsg("hi"), AssistantMsg("Hello")>>

IsCompletion(t, ev) == ev.kind = "data" /\ ev.done /\ OnMessage(t, ev)

Snapshot(session) ==
    [key |-> session.key, sessionId |-> session.sessionId, model |-> session.model,
     history |-> session.history]

\* what C5 says of the step that handles a completion signal, but for history
CompletionEffects(t) ==
    /\ turns'[t].source = "closed"
    /\ currentSession'.eventSource = NoSource
    /\ ~currentSession'.isStreaming
    /\ localStorage'.chatSession = <<Snapshot(currentSession')>>
    /\ dom' = [messageInput |-> FALSE, sendButton |-> FALSE, modelSelect |-> FALSE]
    /\ statusText' = "Ready"

AppendsAssistantMessage ==
    /\ Len(currentSession'.history) = Len(currentSession.history) + 1
    /\ SubSeq(currentSession'.history, 1, Len(currentSession.history))
          = currentSession.history
    /\ currentSession'.history[Len(currentSession'.history)].role = "assistant"

\* C5 (as stated): the step that handles the completion signal of a turn closes
\* the channel, clears isStreaming, appends the accumulator to history as one
\* assistant message, saves the snapshot, re-enables input and sets status Ready.
C5_CompletionAppendsAccumulator ==
    [][\A t \in Turns, ev \in Events :
          IsCompletion(t, ev) =>
             /\ CompletionEffects(t)
             /\ currentSession'.history =
                   Append(currentSession.history, AssistantMsg(turns'[t].fullResponse))
      ]_vars

\* C5 (amended): as stated when the accumulator is non-empty; with an empty
\* accumulator the step does all the rest and appends nothing.  Exactly once: a
\* step appends an assistant message only by closing the open source of a turn,
\* and a closed source stays closed.
C5_CompletionAppendsNonEmptyAccumulator ==
    [][/\ \A t \in Turns, ev \in Events :
             IsCompletion(t, ev) =>
                /\ CompletionEffects(t)
                /\ currentSession'.history =
                      IF turns'[t].fullResponse # ""
                      THEN Append(currentSession.history,
                                  AssistantMsg(turns'[t].fullResponse))
                      ELSE currentSession.history
       /\ AppendsAssistantMessage =>
             \E t \in Turns :
                /\ turns[t].source = "open" /\ turns'[t].source = "closed"
                /\ currentSession'.history =
                      Append(currentSession.history,
                             AssistantMsg(turns'[t].fullResponse))
       /\ \A t \in Turns : turns[t].source = "closed" => turns'[t].source = "closed"
      ]_vars

\* the first turn completed with He: appended, saved, input enabled, Ready
C5_Witness ==
    /\ turns[1].pc = "returned"
    /\ turns[1].source = "closed"
    /\ currentSession.history = <<UserMsg("hi"), AssistantMsg("He")>>
    /\ localStorage.chatSession = <<Snapshot(currentSession)>>
    /\ ~currentSession.isStreaming
    /\ ~dom.messageInput
    /\ statusText = "Ready"

ErrorEvent == [kind |-> "error", content |-> "", done |-> FALSE]

\* a turn that can never receive an outcome: its call awaits the stream, whose
\* source is closed and whose timer is spent
Stuck(t) ==
    /\ turns[t].pc = "streaming"
    /\ turns[t].source = "closed"
    /\ turns[t].timer = "fired"

\* C3: every started turn hands back exactly one outcome, a final text or a
\* terminal error.  Never neither: no turn is left without any handler that could
\* settle it.  Never both: once the error was handed back (the catch block of
\* handleSendMessage ran), the completion code of that turn does not run.
C3_ExactlyOneOutcome ==
    [][/\ \A t \in Turns : ~Stuck(t)'
       /\ \A t \in Turns, ev \in Events :
             turns[t].pc = "failed" => ~IsCompletion(t, ev)
      ]_vars

\* C6: the step that handles an error signal of a turn (an event with an error
\* field, or a channel error) closes the channel and leaves the turn errored, and
\* no later event of an errored turn appends an assistant message.
C6_ErrorSignalClosesChannel ==
    [][/\ \A t \in Turns :
             OnMessage(t, ErrorEvent) \/ OnError(t) =>
                /\ turns'[t].source = "closed"
                /\ turns'[t].pc = "failed"
       /\ \A t \in Turns, ev \in Events :
             turns[t].pc = "failed" /\ OnMessage(t, ev) => ~AppendsAssistantMessage
      ]_vars

\* C7: when the timer of a turn that has not completed fires, the channel is
\* closed and the turn resolves; a non-empty accumulator is recorded as the
\* assistant message of the turn, an empty one appends nothing.
C7_TimeoutKeepsPartialText ==
    [][\A t \in Turns :
          Timeout(t) /\ turns[t].promise = "pending" /\ turns[t].source = "open" =>
             /\ turns'[t].source = "closed"
             /\ turns'[t].pc = "returned"
             /\ currentSession'.history =
                   IF turns[t].fullResponse # ""
                   THEN Append(currentSession.history,
                               AssistantMsg(turns[t].fullResponse))
                   ELSE currentSession.history
      ]_vars

\* C8: the timer of a turn already resolved (by completion or by error) changes
\* nothing when it fires: no source is closed, isStreaming, the input state and
\* history stay as they are.
C8_LateTimeoutIsNoOp ==
    [][\A t \in Turns :
          Timeout(t) /\ turns[t].promise \in {"resolved", "rejected"} =>
             /\ \A u \in Turns : turns'[u].source = turns[u].source
             /\ currentSession' = currentSession
             /\ dom' = dom
      ]_vars

InFlight(t) == turns[t].pc \in {"startSession", "continue", "streaming"}

\* C9: from its submission until it resolves a turn is the only one: at most one
\* call of handleSendMessage is past its guard and has not returned.
C9_SingleActiveTurn == Cardinality({t \in Turns : InFlight(t)}) <= 1

\* C10: a turn re-enables input exactly once: setInputState(true) never runs a
\* second time without a new turn having disabled input in between, and input
\* is enabled whenever every started turn has ended.
C10_InputReEnabledOnce ==
    /\ obs.enables <= 1
    /\ (\A t \in Turns : ~InFlight(t)) => ~dom.messageInput

(***************************************************************************)
(* Push variant: storage, reset and teardown, sources, history             *)
(***************************************************************************)
\* C11: a failed turn is never written to the store: once the first turn of
\* the scripted stream has failed, the chatSession entry is the one there was
\* before the turn began.
C11_FailedTurnNotStored ==
    turns[1].pc = "failed" =>
        localStorage.chatSession = ModelChange(FreshState, "gpt-b").storage.chatSession

Established(session) == session.key # Null /\ session.sessionId # Null

EndRequestFor(session) == [session_id |-> session.sessionId, key |-> session.key]

NoSourceOpen == \A t \in Turns : turns[t].source # "open"

\* C16: the step of a confirmed reset or of a page teardown leaves no source
\* open and, if a session was established, has issued exactly one end-session
\* request with that session's session_id and key (none otherwise), in the same
\* step; the settling of such a request, also a failure, changes nothing.
C16_ResetAndTeardownCancel ==
    [][/\ ClearChat(TRUE) \/ Teardown =>
             /\ NoSourceOpen'
             /\ endRequests' = IF Established(currentSession)
                               THEN Append(endRequests, EndRequestFor(currentSession))
                               ELSE endRequests
       /\ \A ok \in BOOLEAN : EndSessionSettles(ok) => UNCHANGED pushVars
      ]_vars

\* a reset after the first turn, then a teardown during the second's stream
C16_Witness ==
    /\ page = "unloaded"
    /\ endRequests = <<[session_id |-> "s1", key |-> "k1"],
                       [session_id |-> "s1", key |-> "k1"]>>
    /\ turns[2].pc = "streaming" /\ turns[2].source = "closed"

Settled(t) == turns[t].promise \in {"resolved", "rejected"}

\* C17: at most one event source is open in every state, a source is opened only
\* with every other one closed, and the step that resolves a turn (completion,
\* error, timeout) leaves no source open.
C17_AtMostOneSourceOpen ==
    [][/\ Cardinality({t \in Turns : turns'[t].source = "open"}) <= 1
       /\ \A t \in Turns : ~Settled(t) /\ Settled(t)' => NoSourceOpen'
      ]_vars

\* C20: every step leaves history as it is or appends exactly one message at its
\* end; only a confirmed clearChat empties it, and only the init of a page
\* replaces it otherwise (with what it loads).
C20_HistoryAppendOnly ==
    [][\/ currentSession'.history = currentSession.history
       \/ /\ Len(currentSession'.history) = Len(currentSession.history) + 1
          /\ SubSeq(currentSession'.history, 1, Len(currentSession.history))
                = currentSession.history
       \/ /\ ClearChat(TRUE)
          /\ currentSession'.history = <<>>
       \/ \E sendDisabled \in BOOLEAN : PageLoad(sendDisabled)
      ]_vars

\* a page loaded the saved history and a failed turn left its user message on it
C20_Witness ==
    /\ lastOp = "load"
    /\ turns[1].pc = "unloaded"
    /\ turns[2].pc = "failed"
    /\ currentSession.history = <<UserMsg("hi"), UserMsg("hi")>>

(***************************************************************************)
(* The session and its stored snapshot                                     *)
(***************************************************************************)
Together(x) == (x.key = Null) <=> (x.sessionId = Null)

\* C12: key and sessionId are both set or both unset in every reachable state:
\* in the push variant's session, in the stored snapshot when there is one, and
\* in the poll variant's session.
C12_KeyAndSessionIdTogether ==
    /\ Together(currentSession)
    /\ localStorage.chatSession # <<>> => Together(localStorage.chatSession[1])
    /\ Together(pollSession)

\* a page resumed the session an earlier page saved, and its second turn was
\* answered with a key but no session_id
C12_Witness ==
    /\ lastOp = "load"
    /\ currentSession.key = "k1" /\ currentSession.sessionId = "s1"
    /\ localStorage.chatSession # <<>> /\ localStorage.chatSession[1].key = "k1"
    /\ endRequests = <<[session_id |-> "s1", key |-> "k1"]>>
    /\ turns[1].pc = "unloaded"

\* C13: the init of a page that follows a save restores the key, sessionId and
\* model the session had and its history if that has at most 20 messages, else
\* its last 20 messages in their order; a save leaves the session as it is.
C13_SaveLoadRoundTrip ==
    [][/\ lastOp = "save" /\ (\E sendDisabled \in BOOLEAN : PageLoad(sendDisabled)) =>
             /\ currentSession'.key = currentSession.key
             /\ currentSession'.sessionId = currentSession.sessionId
             /\ currentSession'.model = currentSession.model
             /\ LET h == currentSession.history
                    n == Len(h)
                IN  IF n <= 20
                    THEN currentSession'.history = h
                    ELSE /\ Len(currentSession'.history) = 20
                         /\ \A i \in 1..20 : currentSession'.history[i] = h[n - 20 + i]
       /\ StoreSave => currentSession' = currentSession
      ]_vars

\* C14: the init of a page that discards the stored entry (the entry did not
\* load) leaves the session empty: no key, no sessionId, no history.
C14_BadSnapshotLeavesSessionEmpty ==
    [][\A sendDisabled \in BOOLEAN :
          /\ PageLoad(sendDisabled)
          /\ localStorage.chatSession # <<>>
          /\ localStorage'.chatSession = <<>>
          => /\ currentSession'.key = Null
             /\ currentSession'.sessionId = Null
             /\ currentSession'.history = <<>>
      ]_vars

(***************************************************************************)
(* Both variants: the guard of handleSendMessage                           *)
(***************************************************************************)
\* C15: a call of handleSendMessage with no model selected or with an empty or
\* whitespace-only value is a no-op in both variants: no request is issued and
\* history, key, sessionId, the controls and the in-flight flag stay as they are.
C15_GuardedSendIsNoOp ==
    [][\A value \in InputValues :
          /\ (Trim(value) = "" \/ currentSession.model = Null) /\ HandleSendMessage(value)
                => UNCHANGED pushVars
          /\ (Trim(value) = "" \/ pollSession.model = Null) /\ PollHandleSendMessage(value)
                => UNCHANGED pollVars
      ]_vars

\* no model is selected in the push variant; in the poll variant a model is, a
\* turn has failed and left a history, and input is enabled for an empty value
C15_Witness ==
    /\ currentSession.model = Null /\ ~dom.messageInput
    /\ pollSession.model = "gpt-b" /\ ~pollDom.messageInput
    /\ ~isWaitingForResponse
    /\ pollSession.history = <<UserMsg("hi")>>

Enabled == [messageInput |-> FALSE, sendButton |-> FALSE, modelSelect |-> FALSE]

\* C21: the step that handles a start-session response that is not ok or lacks
\* key or session_id leaves key and sessionId unset, opens no source, sets no
\* timer and issues no get-session fetch for the turn, ends the turn as failed
\* with one error shown, and enables input (both variants).
C21_FailedStartSession ==
    [][\A ok \in BOOLEAN, k \in Keys, s \in SessionIds :
          ~(ok /\ k # Null /\ s # Null) =>
             /\ \A t \in Turns :
                   StartSessionSettles(t, ok, k, s) =>
                      /\ currentSession'.key = Null /\ currentSession'.sessionId = Null
                      /\ turns'[t].pc = "failed"
                      /\ turns'[t].source = "none" /\ turns'[t].timer = "none"
                      /\ currentSession'.eventSource = currentSession.eventSource
                      /\ dom' = Enabled
                      /\ obs'.enables = 1
             /\ PollStartSessionResponse(ok, k, s) =>
                   /\ pollSession'.key = Null /\ pollSession'.sessionId = Null
                   /\ pollPc' = "idle"
                   /\ pollObs'.fetches = 0
                   /\ pollObs'.errors = 1 /\ pollObs'.enables = 1
                   /\ pollDom' = PollDomState(TRUE)
                   /\ ~isWaitingForResponse'
      ]_vars

\* the first turn of the push variant ended with a failed start-session
C21_Witness ==
    /\ turns[1].pc = "failed" /\ turns[1].source = "none"
    /\ currentSession.key = Null /\ currentSession.sessionId = Null
    /\ currentSession.history = <<UserMsg("hi")>>
    /\ dom = Enabled

\* a request that transmits the user message: as the last message of the history
\* of a start-session request, or as the message of a continue-session request
Carries(request, message) ==
    \/ /\ request.endpoint = "start-session"
       /\ request.history # <<>>
       /\ request.history[Len(request.history)] = UserMsg(message)
    \/ /\ request.endpoint = "continue-session"
       /\ request.message = message

\* C23: the step of handleSendMessage that appends a user message to history
\* issues a request that carries that message, in both variants; the reply is
\* observed only after that request.
C23_UserMessageTransmitted ==
    [][\A value \in InputValues :
          /\ HandleSendMessage(value) /\ currentSession'.history # currentSession.history
                => Carries(Request(currentSession', turns'[NextTurn]), Trim(value))
          /\ PollHandleSendMessage(value) /\ pollSession'.history # pollSession.history
                => Carries(PollRequest(pollSession', pollPc'), Trim(value))
      ]_vars

\* C24: in every reachable state in which messageInput is enabled the in-flight
\* flag is false (isStreaming in the push variant, isWaitingForResponse in the
\* poll variant), so the guard of handleSendMessage accepts a message there.
C24_EnabledInputMeansNotInFlight ==
    /\ ~dom.messageInput => ~currentSession.isStreaming
    /\ ~pollDom.messageInput => ~isWaitingForResponse

\* a turn whose call is still suspended after a confirmed reset replaced the
\* session it was sent in: handleSendMessage put its message into history and
\* only a reset empties history; a turn past start-session had a key and only a
\* reset unsets it
Orphaned(t) ==
    \/ turns[t].pc = "startSession" /\ currentSession.history = <<>>
    \/ turns[t].pc \in {"continue", "streaming"} /\ currentSession.key = Null

\* a callback of turn t runs: a fetch of its call settles, its source delivers
\* an event or an error, or its timer fires
Callback(t) ==
    \/ \E ok \in BOOLEAN, k \in Keys, s \in SessionIds : StartSessionSettles(t, ok, k, s)
    \/ \E ok \in BOOLEAN : ContinueSessionSettles(t, ok)
    \/ \E ev \in Events : OnMessage(t, ev)
    \/ OnError(t)
    \/ Timeout(t)

\* C26: a callback of a turn that was in flight when a confirmed reset made a
\* fresh session (start-session response, continue-session response, stream
\* event, timeout) leaves the fresh session's key, sessionId and history and the
\* stored chatSession entry as they are.
C26_LateCallbackLeavesFreshSession ==
    [][\A t \in Turns :
          Orphaned(t) /\ Callback(t) =>
             /\ currentSession'.key = currentSession.key
             /\ currentSession'.sessionId = currentSession.sessionId
             /\ currentSession'.history = currentSession.history
             /\ localStorage'.chatSession = localStorage.chatSession
      ]_vars

\* a new turn can be sent: the controls are enabled and the guard of
\* handleSendMessage lets a message through
CanSend ==
    /\ dom = Enabled
    /\ currentSession.model # Null
    /\ ~currentSession.isStreaming

\* C25: whenever a confirmed reset has left a turn in flight behind (its
\* start-session or continue-session request unanswered, or its stream not
\* finished), input is eventually enabled again and a new turn can be sent.
C25_ResetInFlightReEnablesInput ==
    (\E t \in Turns : Orphaned(t)) ~> CanSend

(***************************************************************************)
(* Poll variant: failed fetch, exhaustion                                  *)
(***************************************************************************)
\* C18: the step that handles a failed get-session fetch ends the run: the call
\* is idle, history has no new message, one error is surfaced, input is enabled;
\* and after an error no further fetch is issued for that turn.
C18_FailedFetchAborts ==
    [][/\ \A data \in PollData :
             PollFetchResponse(FALSE, data) =>
                /\ pollPc' = "idle"
                /\ pollSession'.history = pollSession.history
                /\ pollObs'.errors = pollObs.errors + 1
                /\ pollDom' = PollDomState(TRUE)
                /\ ~isWaitingForResponse'
       /\ pollObs.errors > 0 /\ pollObs'.turns = pollObs.turns =>
             pollObs'.fetches = pollObs.fetches
      ]_vars

\* the second fetch of a turn failed after one content was observed
C18_Witness ==
    /\ pollPc = "idle"
    /\ pollObs.fetches = 2 /\ pollObs.errors = 1
    /\ pollAttempts = 1 /\ previousResponses = <<"AB">>
    /\ pollSession.history = <<UserMsg("hi")>>
    /\ ~isWaitingForResponse

\* the two shapes of a get-session body: text fragments, or {role, content} messages
IsFragments(data) ==
    /\ data.isArray /\ data.chat # <<>>
    /\ \A i \in 1..Len(data.chat) : data.chat[i] = TextFragment(data.chat[i].content)

RECURSIVE JoinedText(_)
JoinedText(entries) ==
    IF entries = <<>> THEN "" ELSE Head(entries).content \o JoinedText(Tail(entries))

\* what a poll has to observe in a body: the joined text of the fragments, or the
\* content of the most recent message with role assistant
Observation(data) ==
    IF IsFragments(data) THEN JoinedText(data.chat)
    ELSE IF ~data.isArray THEN ""
    ELSE LET idx == {i \in 1..Len(data.chat) : data.chat[i].role = "assistant"}
         IN  IF idx = {} THEN "" ELSE data.chat[Max(idx)].content

\* C22: a poll that reads a body of either shape with a non-empty observation
\* enters that observation into the stability window.
C22_BothShapesObserved ==
    [][\A data \in PollData :
          PollFetchResponse(TRUE, data) /\ Observation(data) # "" =>
             previousResponses' = PushResponse(previousResponses, Observation(data))
      ]_vars

Exhausted == pollPc = "idle" /\ pollAttempts = MAX_POLL_ATTEMPTS

LastObserved == previousResponses[Len(previousResponses)]

LastMessage == pollSession.history[Len(pollSession.history)]

\* C19 (as stated): a run that reached the ceiling without stability returns the
\* most recently observed content as the assistant message of the turn if any
\* was observed, and signals a failure only when nothing was observed.
C19_ExhaustionReturnsLastContent ==
    Exhausted =>
        IF previousResponses # <<>>
        THEN LastMessage = AssistantMsg(LastObserved) /\ pollObs.errors = 0
        ELSE pollObs.errors = 1

\* C19 (amended): a run that reached the ceiling without stability signals the
\* failure 'Response did not stabilize' whether or not content was observed: no
\* assistant message is appended, one error is surfaced, input is re-enabled.
C19_ExhaustionFails ==
    Exhausted =>
        /\ ~Declared
        /\ LastMessage.role = "user"
        /\ pollObs.errors = 1 /\ pollObs.enables = 1
        /\ ~pollDom.messageInput /\ ~isWaitingForResponse

\* the ceiling was reached with content observed in the window
C19_Witness ==
    /\ Exhausted
    /\ previousResponses # <<>>
    /\ LastObserved = "ABC"
    /\ pollObs.errors = 1

====
